---- MODULE Spec2Model ----
(***************************************************************************)
(* A model of etherscan_api_example.py: the EtherscanAPI client (three     *)
(* GET queries through one requests.Session), the two formatters and the   *)
(* driver main().                                                          *)
(*                                                                         *)
(* Python values are records [t, s, m]: t is the Python type, s the        *)
(* characters of a str (or the literal of a number), m the mapping of a    *)
(* dict.  A Python str is a sequence of one-character strings, so that     *)
(* int() and the f-strings can be computed character by character.         *)
(***************************************************************************)
EXTENDS Integers, Sequences, FiniteSets, TLC

VARIABLES
    api,        \* the EtherscanAPI object (<<>> before it is constructed)
    ctor_args,  \* the (api_key, chainid) the constructor was called with
    n_requests, \* how many HTTP requests the transport has been handed
    last_sent,  \* the requests the last operation called handed to it, in order
    calls,      \* how many fetch operations have been called
    prev_op,    \* the fetch operation called before the last one ("" if none)
    ret,        \* the last operation called, its argument and how it ended
    stdout,     \* what the last operation called printed
    pc,         \* where main() stands ("" when it is not running)
    locals,     \* main's gas_data, token_data and eth_data
    events,     \* the fetches and formatters main has called, in order
    fmt_in      \* the arguments format_balance is to be applied to

vars == <<api, ctor_args, n_requests, last_sent, calls, prev_op, ret, stdout,
          pc, locals, events, fmt_in>>

-----------------------------------------------------------------------------
(* Python values *)

PyNone == [t |-> "None", s |-> <<>>, m |-> <<>>]
PyStr(cs) == [t |-> "str", s |-> cs, m |-> <<>>]
PyInt(cs) == [t |-> "int", s |-> cs, m |-> <<>>]
PyList(cs) == [t |-> "list", s |-> cs, m |-> <<>>]
PyDict(m) == [t |-> "dict", s |-> <<>>, m |-> m]

\* bool(v): None, "", 0, [] and {} are false.
truthy(v) ==
    CASE v.t = "None" -> FALSE
      [] v.t = "dict" -> DOMAIN v.m # {}
      [] v.t = "int" -> v.s # <<"0">>
      [] OTHER -> v.s # <<>>

\* v.get(key, default): only a dict has the method.
has_get(v) == v.t = "dict"
dict_get(v, key, default) == IF key \in DOMAIN v.m THEN v.m[key] ELSE default

-----------------------------------------------------------------------------
(* Bounds and inputs *)

MaxCalls == 2

ApiKeys == {"YourApiKeyToken", "KEY2"}
ChainIds == {1, 11155111}
Addresses == {"0xdac17f958d2ee523a2206206994597c13d831ec7",
              "0xd8dA6BF26964aF9D7eEd9e03E53415D37aA96045"}

GasResultFull ==
    PyDict([LastBlock |-> PyStr(<<"1", "0", "0">>),
            SafeGasPrice |-> PyStr(<<"2", "0">>),
            ProposeGasPrice |-> PyStr(<<"2", "2">>),
            FastGasPrice |-> PyStr(<<"2", "4">>),
            suggestBaseFee |-> PyStr(<<"1", "9", ".", "5">>)])
GasResultNoFee ==
    PyDict([LastBlock |-> PyStr(<<"1", "0", "0">>),
            SafeGasPrice |-> PyStr(<<"2", "0">>),
            ProposeGasPrice |-> PyStr(<<"2", "2">>),
            FastGasPrice |-> PyStr(<<"2", "4">>)])
GasResultPartial ==
    PyDict([SafeGasPrice |-> PyStr(<<"2", "0">>), suggestBaseFee |-> PyNone])

\* What the body of a response can decode to.
JsonValues ==
    { PyDict([status |-> PyStr(<<"1">>), message |-> PyStr(<<"O", "K">>),
              result |-> GasResultFull]),
      PyDict([status |-> PyStr(<<"1">>), result |-> GasResultNoFee]),
      PyDict([status |-> PyStr(<<"1">>), result |-> GasResultPartial]),
      PyDict([status |-> PyStr(<<"1">>), message |-> PyStr(<<"O", "K">>),
              result |-> PyStr(<<"1", "0", "0", "0", "0", "0", "0">>)]),
      PyDict([status |-> PyStr(<<"1">>), result |-> PyNone]),
      PyDict([status |-> PyStr(<<"1">>)]),
      PyDict([status |-> PyStr(<<"0">>), message |-> PyStr(<<"N", "O", "T", "O", "K">>)]),
      PyDict([status |-> PyInt(<<"1">>)]),
      PyDict([message |-> PyStr(<<"O", "K">>)]),
      PyDict(<<>>),
      PyList(<<"1">>),
      PyStr(<<"1">>),
      PyInt(<<"1">>),
      PyNone }

\* A body is text that decodes to a value, or text that is not JSON.
Bodies == [json_ok : {TRUE}, value : JsonValues] \cup {[json_ok |-> FALSE, value |-> PyNone]}
StatusCodes == {200, 300, 404}

\* The outcomes of one HTTP round trip: the transport raises, or a response arrives.
Transport ==
    [exc : {"ConnectionError", "Timeout"}, status_code : {0},
     body : {[json_ok |-> FALSE, value |-> PyNone]}]
    \cup [exc : {""}, status_code : StatusCodes, body : Bodies]

-----------------------------------------------------------------------------
(* Text *)

\* The characters of a str as one TLA+ string.
RECURSIVE Join(_)
Join(cs) == IF cs = <<>> THEN "" ELSE Head(cs) \o Join(Tail(cs))

\* str(v) as an f-string renders it.  The values printed here are str, int
\* and None (a dict or a list is never a field of the inputs above).
py_str(v) ==
    CASE v.t = "None" -> "None"
      [] v.t = "dict" -> "{...}"
      [] v.t = "list" -> "[...]"
      [] OTHER -> Join(v.s)

-----------------------------------------------------------------------------
(* requests: the part of the library the client relies on *)

base_url == "https://api.etherscan.io/api"
timeout == 10

\* A merge that forgets the session's defaults.
merge_setting_request_only(request_setting, session_setting) == request_setting

\* Session.request merges the call's params over the session's: a key of the
\* call wins, every other session key is kept.
merge_setting(request_setting, session_setting) ==
    [k \in DOMAIN session_setting \cup DOMAIN request_setting |->
        IF k \in DOMAIN request_setting THEN request_setting[k] ELSE session_setting[k]]

\* self.session.get(self.base_url, params=params, timeout=10): the request sent.
session_get(self, params) ==
    [method |-> "GET", url |-> self.base_url,
     params |-> merge_setting(params, self.session_params), timeout |-> timeout]

\* session.get raises a RequestException when the transport fails.
get_raises(t) == t.exc # ""
\* response.raise_for_status() raises HTTPError for a 4xx or 5xx status.
raise_for_status(t) == 400 <= t.status_code /\ t.status_code < 600
\* response.json() raises a JSONDecodeError when the body is not JSON.
json_raises(t) == ~t.body.json_ok
response_json(t) == t.body.value

-----------------------------------------------------------------------------
(* EtherscanAPI *)

\* How a call ends: it returns value, or raises the exception named.
Return(v) == [raised |-> "", value |-> v]
Raise(e) == [raised |-> e, value |-> PyNone]

\* A constructor that probes the endpoint to validate its key.
EtherscanAPI_init_probing(key, cid) ==
    LET self == [api_key |-> key, chainid |-> cid, base_url |-> base_url,
                 session_params |-> [apikey |-> key, chainid |-> cid]]
    IN  [self |-> self,
         sent |-> <<session_get(self, [module |-> "stats", action |-> "ethprice"])>>]

\* __init__: the object built, and the requests sent while building it.
EtherscanAPI_init(key, cid) ==
    [self |-> [api_key |-> key, chainid |-> cid, base_url |-> base_url,
               session_params |-> [apikey |-> key, chainid |-> cid]],
     sent |-> <<>>]

\* Each fetch: the object afterwards, the requests sent, how the call ends and
\* what it prints ("[ok]" and "[x]" stand for the check mark and the cross).
\* A fetch that sends its request again after a failure.
get_gas_prices_retrying(self, t) ==
    LET req == session_get(self, [module |-> "gastracker", action |-> "gasoracle"])
        data == response_json(t)
    IN  IF get_raises(t) \/ raise_for_status(t)
        THEN [self |-> self, sent |-> <<req, req>>, ret |-> Return(PyNone),
              out |-> <<"[x] Request failed">>]
        ELSE IF json_raises(t)
        THEN [self |-> self, sent |-> <<req>>, ret |-> Return(PyNone),
              out |-> <<"[x] Failed to parse JSON response">>]
        ELSE IF ~has_get(data)
        THEN [self |-> self, sent |-> <<req>>, ret |-> Raise("AttributeError"), out |-> <<>>]
        ELSE IF dict_get(data, "status", PyNone) = PyStr(<<"1">>)
        THEN [self |-> self, sent |-> <<req>>, ret |-> Return(data),
              out |-> <<"[ok] Gas prices fetched successfully">>]
        ELSE [self |-> self, sent |-> <<req>>, ret |-> Return(PyNone),
              out |-> <<"[x] API returned error">>]

gas_params == [module |-> "gastracker", action |-> "gasoracle"]

get_gas_prices(self, t) ==
    LET params == gas_params
        sent == <<session_get(self, params)>>
        data == response_json(t)
    IN  IF get_raises(t) \/ raise_for_status(t)
        THEN [self |-> self, sent |-> sent, ret |-> Return(PyNone),
              out |-> <<"[x] Request failed">>]
        ELSE IF json_raises(t)
        THEN [self |-> self, sent |-> sent, ret |-> Return(PyNone),
              out |-> <<"[x] Failed to parse JSON response">>]
        ELSE IF ~has_get(data)
        THEN [self |-> self, sent |-> sent, ret |-> Raise("AttributeError"), out |-> <<>>]
        ELSE IF dict_get(data, "status", PyNone) = PyStr(<<"1">>)
        THEN [self |-> self, sent |-> sent, ret |-> Return(data),
              out |-> <<"[ok] Gas prices fetched successfully">>]
        ELSE [self |-> self, sent |-> sent, ret |-> Return(PyNone),
              out |-> <<"[x] API returned error: "
                        \o py_str(dict_get(data, "message",
                                           PyStr(<<"Unknown error">>)))>>]

token_params(contract_address, wallet_address) ==
    [module |-> "account", action |-> "tokenbalance",
     contractaddress |-> contract_address,
     address |-> wallet_address, tag |-> "latest"]

get_token_balance(self, contract_address, wallet_address, t) ==
    LET params == token_params(contract_address, wallet_address)
        sent == <<session_get(self, params)>>
        data == response_json(t)
    IN  IF get_raises(t) \/ raise_for_status(t)
        THEN [self |-> self, sent |-> sent, ret |-> Return(PyNone),
              out |-> <<"[x] Request failed">>]
        ELSE IF json_raises(t)
        THEN [self |-> self, sent |-> sent, ret |-> Return(PyNone),
              out |-> <<"[x] Failed to parse JSON response">>]
        ELSE IF ~has_get(data)
        THEN [self |-> self, sent |-> sent, ret |-> Raise("AttributeError"), out |-> <<>>]
        ELSE IF dict_get(data, "status", PyNone) = PyStr(<<"1">>)
        THEN [self |-> self, sent |-> sent, ret |-> Return(data),
              out |-> <<"[ok] Token balance fetched successfully">>]
        ELSE [self |-> self, sent |-> sent, ret |-> Return(PyNone),
              out |-> <<"[x] API returned error: "
                        \o py_str(dict_get(data, "message",
                                           PyStr(<<"Unknown error">>)))>>]

\* The token query's parameters pasted into the native-balance query.
eth_params_pasted(wallet_address) ==
    [module |-> "account", action |-> "balance",
     contractaddress |-> wallet_address,
     address |-> wallet_address, tag |-> "latest"]

eth_params(wallet_address) ==
    [module |-> "account", action |-> "balance",
     address |-> wallet_address, tag |-> "latest"]

get_eth_balance(self, wallet_address, t) ==
    LET params == eth_params(wallet_address)
        sent == <<session_get(self, params)>>
        data == response_json(t)
    IN  IF get_raises(t) \/ raise_for_status(t)
        THEN [self |-> self, sent |-> sent, ret |-> Return(PyNone),
              out |-> <<"[x] Request failed">>]
        ELSE IF json_raises(t)
        THEN [self |-> self, sent |-> sent, ret |-> Return(PyNone),
              out |-> <<"[x] Failed to parse JSON response">>]
        ELSE IF ~has_get(data)
        THEN [self |-> self, sent |-> sent, ret |-> Raise("AttributeError"), out |-> <<>>]
        ELSE IF dict_get(data, "status", PyNone) = PyStr(<<"1">>)
        THEN [self |-> self, sent |-> sent, ret |-> Return(data),
              out |-> <<"[ok] ETH balance fetched successfully">>]
        ELSE [self |-> self, sent |-> sent, ret |-> Return(PyNone),
              out |-> <<"[x] API returned error: "
                        \o py_str(dict_get(data, "message",
                                           PyStr(<<"Unknown error">>)))>>]

-----------------------------------------------------------------------------
(* Arbitrary-precision naturals, as Python's int has them: the decimal       *)
(* digits, most significant first, without leading zeros (zero is <<>>).     *)

Min(S) == CHOOSE x \in S : \A y \in S : x <= y
Max(S) == CHOOSE x \in S : \A y \in S : y <= x

strip_zeros(a) ==
    LET nz == {i \in 1..Len(a) : a[i] # 0}
    IN  IF nz = {} THEN <<>> ELSE SubSeq(a, Min(nz), Len(a))

\* a < b
less(a, b) ==
    IF Len(a) # Len(b) THEN Len(a) < Len(b)
    ELSE LET diff == {i \in 1..Len(a) : a[i] # b[i]}
         IN  diff # {} /\ a[Min(diff)] < b[Min(diff)]

\* 2 * a: the carry out of a digit is 1 exactly when the digit is 5 or more.
double(a) ==
    LET n == Len(a)
        body == [i \in 1..n |->
                    ((2 * a[i]) % 10) + (IF i < n /\ a[i + 1] >= 5 THEN 1 ELSE 0)]
    IN  IF n > 0 /\ a[1] >= 5 THEN <<1>> \o body ELSE <<>> \o body

\* a div 2: an odd digit hands 10 down to the next one.
halve(a) ==
    strip_zeros([i \in 1..Len(a) |->
                    (a[i] + (IF i > 1 /\ a[i - 1] % 2 = 1 THEN 10 ELSE 0)) \div 2])

is_odd(a) == a # <<>> /\ a[Len(a)] % 2 = 1

\* a + 1: the digits after the last one that is not 9 turn to 0.
inc(a) ==
    LET n == Len(a)
        not9 == {i \in 1..n : a[i] # 9}
    IN  IF not9 = {} THEN <<1>> \o [i \in 1..n |-> 0]
        ELSE LET j == Max(not9)
             IN  <<>> \o [i \in 1..n |->
                            IF i < j THEN a[i] ELSE IF i = j THEN a[i] + 1 ELSE 0]

\* a - b for a >= b.  A digit lends to its right neighbours exactly when the
\* digits to its right are less than those of b, which the first place to its
\* right where the two differ decides.
sub(a, b) ==
    LET n == Len(a)
        off == n - Len(b)
        bp == [i \in 1..n |-> IF i > off THEN b[i - off] ELSE 0]
        diff == {j \in 1..n : a[j] # bp[j]}
        borrow(i) ==
            LET right == {j \in diff : j > i}
            IN  IF right # {} /\ a[Min(right)] < bp[Min(right)] THEN 1 ELSE 0
    IN  strip_zeros([i \in 1..n |-> (a[i] + 10 - bp[i] - borrow(i)) % 10])

\* a * 2^k and 10^d
RECURSIVE shift_left(_, _)
shift_left(a, k) ==
    IF k = 0 \/ a = <<>> THEN a
    ELSE IF k = 1 THEN double(a)
    ELSE shift_left(shift_left(a, k \div 2), k - (k \div 2))
pow10(d) == <<1>> \o [i \in 1..d |-> 0]

-----------------------------------------------------------------------------
(* int(), int / int and the format .6f, as CPython computes them *)

DigitChars == <<"0", "1", "2", "3", "4", "5", "6", "7", "8", "9">>
is_digit(c) == \E d \in 1..10 : DigitChars[d] = c
digit_of(c) == (CHOOSE d \in 1..10 : DigitChars[d] = c) - 1
is_space(c) == c \in {" ", "\t", "\n", "\r"}

\* str.strip(): the text without the white space around it.
strip(cs) ==
    LET ink == {i \in 1..Len(cs) : ~is_space(cs[i])}
    IN  IF ink = {} THEN <<>>
        ELSE SubSeq(cs, Min(ink), Max(ink))

\* The literal int() accepts after the sign: digits, with single underscores
\* between digits only.
is_int_literal(cs) ==
    /\ cs # <<>>
    /\ \A i \in 1..Len(cs) :
          \/ is_digit(cs[i])
          \/ /\ cs[i] = "_"
             /\ 1 < i /\ i < Len(cs)
             /\ is_digit(cs[i - 1]) /\ is_digit(cs[i + 1])

digits_of(cs) ==
    LET ds == SelectSeq(cs, is_digit)
    IN  strip_zeros([i \in 1..Len(ds) |-> digit_of(ds[i])])

\* int(v): the sign and magnitude, or the exception raised.
int_of(v) ==
    CASE v.t = "str" ->
            LET body == strip(v.s)
                signed == body # <<>> /\ body[1] \in {"+", "-"}
                lit == IF signed THEN Tail(body) ELSE body
            IN  IF is_int_literal(lit)
                THEN [raised |-> "", mag |-> digits_of(lit),
                      neg |-> signed /\ body[1] = "-" /\ digits_of(lit) # <<>>]
                ELSE [raised |-> "ValueError", mag |-> <<>>, neg |-> FALSE]
      [] v.t = "int" ->
            [raised |-> "", neg |-> v.s # <<>> /\ v.s[1] = "-",
             mag |-> digits_of(v.s)]
      [] OTHER -> [raised |-> "TypeError", mag |-> <<>>, neg |-> FALSE]

\* The IEEE 754 binary64 format: 53 bits of mantissa, exponents of the unit in
\* the last place from -1074 to 971.
MantBits == 53
MinExp == -1074
MaxExp == 971

\* The quotient bit by bit: MantBits steps of shift and subtract of num by
\* den * 2^(MantBits - 1), then round half to even on what is left.
RECURSIVE divide_bits(_, _, _, _)
divide_bits(r, d, q, k) ==
    IF k = 0
    THEN IF less(d, r) \/ (r = d /\ is_odd(q)) THEN inc(q) ELSE q
    ELSE LET bit == ~less(r, d)
             q2 == IF bit THEN inc(double(q)) ELSE double(q)
         IN  IF q2 = <<>> THEN divide_bits(double(r), d, <<>>, k - 1)
             ELSE divide_bits(double(IF bit THEN sub(r, d) ELSE r), d, q2, k - 1)

\* Scale until 2^(MantBits-1) <= num / (den * 2^e) < 2^MantBits, with
\* e >= MinExp: lo is den * 2^(MantBits-1+e) on the way up, num is doubled on
\* the way down; step by step, after strides of Stride steps.  Beyond MaxExp
\* the quotient is too large whatever its mantissa, and the scaling stops.
Stride == 64
RECURSIVE scale_up(_, _, _, _)
scale_up(num, lo, e, step) ==
    IF e > MaxExp \/ less(num, shift_left(lo, step)) THEN [lo |-> lo, e |-> e]
    ELSE scale_up(num, shift_left(lo, step), e + step, step)
RECURSIVE scale_down(_, _, _, _)
scale_down(num, lo, e, step) ==
    IF e - step < MinExp \/ ~less(shift_left(num, step - 1), lo)
    THEN [num |-> num, e |-> e]
    ELSE scale_down(shift_left(num, step), lo, e - step, step)

\* a / b for ints a >= 0, b > 0: the nearest double, as mant * 2^exp, or
\* OverflowError when it is beyond the largest double.
true_divide(a, b) ==
    IF a = <<>> THEN [raised |-> "", mant |-> <<>>, exp |-> 0]
    ELSE LET lo0 == shift_left(b, MantBits - 1)
             up64 == scale_up(a, lo0, 0, Stride)
             up == scale_up(a, up64.lo, up64.e, 1)
             dn64 == scale_down(a, lo0, 0, Stride)
             dn == IF up.e > 0 THEN [num |-> a, e |-> up.e]
                   ELSE scale_down(dn64.num, lo0, dn64.e, 1)
             mant == divide_bits(dn.num, up.lo, <<>>, MantBits)
         IN  IF dn.e > MaxExp
                \/ (dn.e = MaxExp /\ ~less(mant, shift_left(<<1>>, MantBits)))
             THEN [raised |-> "OverflowError", mant |-> <<>>, exp |-> 0]
             ELSE [raised |-> "", mant |-> mant, exp |-> dn.e]

\* n shifted right by k bits: what is left, the bit shifted out last, and
\* whether a bit shifted out before it was 1.
RECURSIVE shift_out(_, _)
shift_out(n, k) ==
    IF k = 0 \/ n = <<>> THEN [n |-> n, last |-> FALSE, sticky |-> FALSE]
    ELSE IF k = 1 THEN [n |-> halve(n), last |-> is_odd(n), sticky |-> FALSE]
    ELSE LET h == shift_out(n, k \div 2)
             r == shift_out(h.n, k - (k \div 2))
         IN  [n |-> r.n, last |-> r.last, sticky |-> r.sticky \/ h.last \/ h.sticky]

\* n / 2^k rounded half to even.
shift_right(n, k) ==
    LET r == shift_out(n, k)
    IN  IF r.last /\ (r.sticky \/ is_odd(r.n)) THEN inc(r.n) ELSE r.n

\* The text of k / 10^6 with its six fractional digits, and the sign.
fixed6(neg, k) ==
    LET padded == IF Len(k) >= 7 THEN k ELSE [i \in 1..(7 - Len(k)) |-> 0] \o k
        n == Len(padded)
        text == [i \in 1..(n + 1) |->
                    IF i <= n - 6 THEN DigitChars[padded[i] + 1]
                    ELSE IF i = n - 5 THEN "."
                    ELSE DigitChars[padded[i - 1] + 1]]
    IN  IF neg THEN <<"-">> \o text ELSE <<>> \o text

\* f"{x:.6f}" for the double x = mant * 2^exp with the sign neg: the exact
\* value rounded half to even at the sixth fractional digit.
format_6f(neg, mant, exp) ==
    LET micro == IF mant = <<>> THEN <<>> ELSE mant \o <<0, 0, 0, 0, 0, 0>>
    IN  fixed6(neg, IF exp >= 0 THEN shift_left(micro, exp)
                    ELSE shift_right(micro, -exp))

\* format_balance(balance_wei, decimals), for decimals >= 0.
format_balance(balance_wei, decimals) ==
    LET n == int_of(balance_wei)
        balance == true_divide(n.mag, pow10(decimals))
    IN  IF n.raised # "" THEN Return(PyStr(<<"Invalid balance">>))
        ELSE IF balance.raised # "" THEN Raise(balance.raised)
        ELSE Return(PyStr(format_6f(n.neg, balance.mant, balance.exp)))

-----------------------------------------------------------------------------
(* Formatters *)

\* "\n".join(lines), as the pieces of the text.
RECURSIVE join_lines(_)
join_lines(lines) ==
    IF Len(lines) <= 1 THEN lines
    ELSE <<Head(lines), "\n">> \o join_lines(Tail(lines))

\* format_gas_prices(data), for data a dict or a false value (the only
\* arguments main and the fetches can hand it).
format_gas_prices(data) ==
    IF ~truthy(data) \/ "result" \notin DOMAIN data.m
    THEN Return(PyStr(<<"No gas price data available">>))
    ELSE LET result == data.m["result"]
             na == PyStr(<<"N/A">>)
             lines ==
                 << "\n=== Current Gas Prices (Gwei) ===",
                    "Safe Gas Price:    "
                        \o py_str(dict_get(result, "SafeGasPrice", na)) \o " Gwei",
                    "Propose Gas Price: "
                        \o py_str(dict_get(result, "ProposeGasPrice", na)) \o " Gwei",
                    "Fast Gas Price:    "
                        \o py_str(dict_get(result, "FastGasPrice", na)) \o " Gwei",
                    "Last Block:        "
                        \o py_str(dict_get(result, "LastBlock", na)) >>
             suggest_base_fee == dict_get(result, "suggestBaseFee", PyNone)
         IN  IF ~has_get(result) THEN Raise("AttributeError")
             ELSE IF suggest_base_fee # PyNone
             THEN Return(PyStr(join_lines(Append(lines,
                      "Suggested Base Fee: " \o py_str(suggest_base_fee) \o " Gwei"))))
             ELSE Return(PyStr(join_lines(lines)))

-----------------------------------------------------------------------------
(* The client under test: any sequence of calls, any transport outcome *)

Fetches == {"get_gas_prices", "get_token_balance", "get_eth_balance"}

NoLocals == [gas_data |-> PyNone, token_data |-> PyNone, eth_data |-> PyNone]
NoCall == [op |-> "", arg |-> <<>>, raised |-> "", value |-> PyNone]
Called(op, arg, r) == [op |-> op, arg |-> arg, raised |-> r.raised, value |-> r.value]

Init ==
    /\ api = <<>>
    /\ ctor_args = <<>>
    /\ n_requests = 0
    /\ last_sent = <<>>
    /\ calls = 0
    /\ prev_op = ""
    /\ ret = NoCall
    /\ stdout = <<>>
    /\ pc = ""
    /\ locals = NoLocals
    /\ events = <<>>
    /\ fmt_in = <<>>

Construct ==
    /\ api = <<>>
    /\ \E key \in ApiKeys, cid \in ChainIds :
          LET e == EtherscanAPI_init(key, cid)
          IN  /\ api' = e.self
              /\ ctor_args' = <<key, cid>>
              /\ n_requests' = n_requests + Len(e.sent)
              /\ last_sent' = e.sent
              /\ ret' = Called("__init__", <<>>, Return(PyNone))
    /\ UNCHANGED <<calls, prev_op, stdout, pc, locals, events, fmt_in>>

\* One fetch op(args), with effect e, under transport outcome t.
Fetched(op, args, t, e) ==
    /\ api' = e.self
    /\ n_requests' = n_requests + Len(e.sent)
    /\ last_sent' = e.sent
    /\ calls' = calls + 1
    /\ prev_op' = IF ret.op \in Fetches THEN ret.op ELSE prev_op
    /\ ret' = Called(op, [args |-> args, t |-> t], e.ret)
    /\ stdout' = e.out
    /\ UNCHANGED <<ctor_args, fmt_in>>

GetGasPrices ==
    /\ api # <<>>
    /\ calls < MaxCalls
    /\ \E t \in Transport : Fetched("get_gas_prices", <<>>, t, get_gas_prices(api, t))
    /\ UNCHANGED <<pc, locals, events>>

GetTokenBalance ==
    /\ api # <<>>
    /\ calls < MaxCalls
    /\ \E t \in Transport, c \in Addresses, w \in Addresses :
          Fetched("get_token_balance", <<c, w>>, t, get_token_balance(api, c, w, t))
    /\ UNCHANGED <<pc, locals, events>>

GetEthBalance ==
    /\ api # <<>>
    /\ calls < MaxCalls
    /\ \E t \in Transport, w \in Addresses :
          Fetched("get_eth_balance", <<w>>, t, get_eth_balance(api, w, t))
    /\ UNCHANGED <<pc, locals, events>>

\* The caller formats a response a fetch returned as present.
FormatGasPrices ==
    /\ ret.op \in Fetches
    /\ ret.raised = ""
    /\ truthy(ret.value)
    /\ ret' = Called("format_gas_prices", ret.value, format_gas_prices(ret.value))
    /\ UNCHANGED <<api, ctor_args, n_requests, last_sent, calls, prev_op, stdout,
                   pc, locals, events, fmt_in>>

Next == Construct \/ GetGasPrices \/ GetTokenBalance \/ GetEthBalance \/ FormatGasPrices

Spec == Init /\ [][Next]_vars

-----------------------------------------------------------------------------
(* Properties of the client *)

Defaults == {"apikey", "chainid"}

\* The transport outcome of the fetch that was called last.
LastT == ret.arg.t
\* The round trip succeeded with a 2xx status and a body that is JSON.
Transport2xxJson(t) ==
    t.exc = "" /\ 200 <= t.status_code /\ t.status_code < 300 /\ t.body.json_ok
\* The decoded body carries the status field "1".
StatusIsOne(t) ==
    /\ t.body.value.t = "dict"
    /\ "status" \in DOMAIN t.body.value.m
    /\ t.body.value.m["status"] = PyStr(<<"1">>)
Present == ret.raised = "" /\ ret.value # PyNone
Absent == ret.raised = "" /\ ret.value = PyNone

\* C1: a fetch returns a present result, the parsed response itself, if and
\* only if the round trip succeeded with a 2xx status, the body is JSON and
\* its status field is "1"; in every other case it returns absent.
CE_C1 ==
    ret.op \in Fetches =>
        IF Transport2xxJson(LastT) /\ StatusIsOne(LastT)
        THEN Present /\ ret.value = LastT.body.value
        ELSE Absent

\* C2: no fetch ends by raising, whatever the transport outcome and the body.
CE_C2 == ret.op \in Fetches => ret.raised = ""

\* C3: every request sent carries apikey and chainid as given to the
\* constructor, and no call changes the defaults the session stores.
Thm_C3 ==
    api # <<>> =>
        /\ api.session_params = [apikey |-> ctor_args[1], chainid |-> ctor_args[2]]
        /\ \A i \in 1..Len(last_sent) :
              /\ Defaults \subseteq DOMAIN last_sent[i].params
              /\ last_sent[i].params["apikey"] = ctor_args[1]
              /\ last_sent[i].params["chainid"] = ctor_args[2]

Wit_C3 ==
    /\ ret.op = "get_token_balance"
    /\ prev_op = "get_eth_balance"
    /\ ctor_args = <<"KEY2", 11155111>>
    /\ Len(last_sent) = 1
    /\ last_sent[1].params["apikey"] = "KEY2"

\* C4: no request has been sent as long as no fetch has been called; the
\* constructor sends none.
Thm_C4 == calls = 0 => n_requests = 0 /\ last_sent = <<>>

Wit_C4 == ret.op = "__init__" /\ api # <<>> /\ calls = 0 /\ n_requests = 0

\* C9: every fetch called has sent exactly one GET request, also after a
\* failure, and every request carries the timeout 10.
Thm_C9 ==
    /\ n_requests = calls
    /\ ret.op \in Fetches => Len(last_sent) = 1
    /\ \A i \in 1..Len(last_sent) :
          last_sent[i].method = "GET" /\ last_sent[i].timeout = 10

Wit_C9 ==
    /\ ret.op = "get_gas_prices"
    /\ prev_op = "get_eth_balance"
    /\ LastT.exc = "Timeout"
    /\ Absent
    /\ calls = 2
    /\ n_requests = 2

\* The parameters of a request other than the session's defaults.
OwnParams(req) == [k \in DOMAIN req.params \ Defaults |-> req.params[k]]

\* C10: apart from apikey and chainid, a request carries exactly the
\* parameters of its operation and arguments, whatever was called before.
Thm_C10 ==
    ret.op \in Fetches =>
        /\ Len(last_sent) = 1
        /\ ret.op = "get_gas_prices" =>
              OwnParams(last_sent[1]) = [module |-> "gastracker", action |-> "gasoracle"]
        /\ ret.op = "get_token_balance" =>
              OwnParams(last_sent[1]) =
                  [module |-> "account", action |-> "tokenbalance",
                   contractaddress |-> ret.arg.args[1], address |-> ret.arg.args[2],
                   tag |-> "latest"]
        /\ ret.op = "get_eth_balance" =>
              /\ OwnParams(last_sent[1]) =
                    [module |-> "account", action |-> "balance",
                     address |-> ret.arg.args[1], tag |-> "latest"]
              /\ "contractaddress" \notin DOMAIN last_sent[1].params

Wit_C10 ==
    /\ ret.op = "get_eth_balance"
    /\ prev_op = "get_token_balance"
    /\ Len(last_sent) = 1
    /\ "contractaddress" \notin DOMAIN last_sent[1].params

\* The lines of the text format_gas_prices returned.
OutLines == {ret.value.s[i] : i \in 1..Len(ret.value.s)}
\* The field of the result of the response that was formatted: its text, or
\* "N/A" when the result does not carry it.
FieldText(data, f) ==
    IF "result" \in DOMAIN data.m /\ f \in DOMAIN data.m["result"].m
    THEN py_str(data.m["result"].m[f]) ELSE "N/A"
HasBaseFee(data) ==
    /\ "result" \in DOMAIN data.m
    /\ "suggestBaseFee" \in DOMAIN data.m["result"].m
    /\ data.m["result"].m["suggestBaseFee"] # PyNone

\* C7: for a response a fetch returned as present, format_gas_prices does
\* not fail; and when the response carries a result, its text has the four
\* lines with each field's value or "N/A", and has the base-fee line exactly
\* when the result carries a base fee that is not null.
CE_C7 ==
    ret.op = "format_gas_prices" =>
        /\ ret.raised = ""
        /\ "result" \in DOMAIN ret.arg.m =>
              /\ "Safe Gas Price:    " \o FieldText(ret.arg, "SafeGasPrice") \o " Gwei" \in OutLines
              /\ "Propose Gas Price: " \o FieldText(ret.arg, "ProposeGasPrice") \o " Gwei" \in OutLines
              /\ "Fast Gas Price:    " \o FieldText(ret.arg, "FastGasPrice") \o " Gwei" \in OutLines
              /\ "Last Block:        " \o FieldText(ret.arg, "LastBlock") \in OutLines
              /\ HasBaseFee(ret.arg) <=>
                    \E l \in OutLines :
                        l = "Suggested Base Fee: " \o FieldText(ret.arg, "suggestBaseFee") \o " Gwei"

-----------------------------------------------------------------------------
(* The driver main(): one step for each block that ends with a fetch *)

usdt_contract == "0xdac17f958d2ee523a2206206994597c13d831ec7"
example_wallet == "0xd8dA6BF26964aF9D7eEd9e03E53415D37aA96045"

Rule == "============================================================"
Dash == "------------------------------------------------------------"

\* The outcomes of a round trip main() is run against.
MainTransport == {t \in Transport : t.status_code # 300}

MainInit ==
    /\ api = <<>>
    /\ ctor_args = <<>>
    /\ n_requests = 0
    /\ last_sent = <<>>
    /\ calls = 0
    /\ prev_op = ""
    /\ ret = NoCall
    /\ stdout = <<>>
    /\ pc = "start"
    /\ locals = NoLocals
    /\ events = <<>>
    /\ fmt_in = <<>>

\* The banner, and api = EtherscanAPI(api_key="YourApiKeyToken", chainid=1).
main_start ==
    /\ pc = "start"
    /\ LET e == EtherscanAPI_init("YourApiKeyToken", 1)
       IN  /\ api' = e.self
           /\ ctor_args' = <<"YourApiKeyToken", 1>>
           /\ n_requests' = n_requests + Len(e.sent)
           /\ last_sent' = e.sent
           /\ stdout' = <<Rule, "Etherscan v2 API Example - Proper chainid Parameter Usage",
                          Rule,
                          "\nUsing chainid: " \o ToString(e.self.chainid)
                              \o " (Ethereum Mainnet)",
                          "\nNote: Replace 'YourApiKeyToken' with your actual API key for real usage.\n">>
    /\ pc' = "example1"
    /\ UNCHANGED <<calls, prev_op, ret, locals, events, fmt_in>>

\* One example of main(): the banner, the fetch op(args) with effect e under
\* the transport outcome t, and if the result is true the formatter, whose
\* outcome is f and whose text is printed as shown; then tail is printed.
\* An exception of the fetch or of the formatter ends main().
main_example(next, banner, op, args, t, e, formatter, f, shown, locals2, tail) ==
    LET present == e.ret.raised = "" /\ truthy(e.ret.value)
        raised == e.ret.raised # "" \/ (present /\ f.raised # "")
    IN  /\ api' = e.self
        /\ n_requests' = n_requests + Len(e.sent)
        /\ last_sent' = e.sent
        /\ calls' = calls + 1
        /\ prev_op' = IF ret.op \in Fetches THEN ret.op ELSE prev_op
        /\ events' = events \o (IF present THEN <<op, formatter>> ELSE <<op>>)
        /\ locals' = IF e.ret.raised = "" THEN locals2 ELSE locals
        /\ stdout' = banner \o e.out
                        \o (IF present /\ f.raised = "" THEN <<shown>> ELSE <<>>)
                        \o (IF raised THEN <<>> ELSE tail)
        /\ pc' = IF raised THEN "raised" ELSE next
        /\ ret' = IF e.ret.raised # "" THEN Called("main", <<>>, e.ret)
                  ELSE IF present /\ f.raised # "" THEN Called("main", <<>>, f)
                  ELSE IF next = "done" THEN Called("main", <<>>, Return(PyNone))
                  ELSE Called(op, [args |-> args, t |-> t], e.ret)
        /\ UNCHANGED <<ctor_args, fmt_in>>

main_example1 ==
    /\ pc = "example1"
    /\ \E t \in MainTransport :
          LET e == get_gas_prices(api, t)
              gas_data == e.ret.value
              f == format_gas_prices(gas_data)
          IN  main_example("example2",
                  <<"\n" \o Dash, "Example 1: Fetching Gas Prices", Dash>>,
                  "get_gas_prices", <<>>, t, e,
                  "format_gas_prices", f, Join(f.value.s),
                  [locals EXCEPT !.gas_data = gas_data], <<>>)

main_example2 ==
    /\ pc = "example2"
    /\ \E t \in MainTransport :
          LET e == get_token_balance(api, usdt_contract, example_wallet, t)
              token_data == e.ret.value
              balance_wei == dict_get(token_data, "result", PyStr(<<"0">>))
              f == format_balance(balance_wei, 6)
          IN  main_example("example3",
                  <<"\n" \o Dash, "Example 2: Fetching Token Balance", Dash,
                    "Contract: " \o usdt_contract, "Wallet:   " \o example_wallet>>,
                  "get_token_balance", <<usdt_contract, example_wallet>>, t, e,
                  "format_balance", f, "\nToken Balance: " \o Join(f.value.s) \o " USDT",
                  [locals EXCEPT !.token_data = token_data], <<>>)

main_example3 ==
    /\ pc = "example3"
    /\ \E t \in MainTransport :
          LET e == get_eth_balance(api, example_wallet, t)
              eth_data == e.ret.value
              balance_wei == dict_get(eth_data, "result", PyStr(<<"0">>))
              f == format_balance(balance_wei, 18)
          IN  main_example("done",
                  <<"\n" \o Dash, "Example 3: Fetching ETH Balance", Dash,
                    "Wallet: " \o example_wallet>>,
                  "get_eth_balance", <<example_wallet>>, t, e,
                  "format_balance", f, "\nETH Balance: " \o Join(f.value.s) \o " ETH",
                  [locals EXCEPT !.eth_data = eth_data],
                  <<"\n" \o Rule, "Summary:", Rule,
                    "[ok] All API calls include the required 'chainid' parameter",
                    "[ok] JSON responses are properly parsed and handled",
                    "[ok] Error handling is implemented for network and parsing issues",
                    "\nChain IDs Reference:", "  - 1: Ethereum Mainnet",
                    "  - 11155111: Sepolia Testnet",
                    "  Note: Goerli testnet (chainid: 5) has been deprecated", Rule>>)

MainNext == main_start \/ main_example1 \/ main_example2 \/ main_example3

SpecMain == MainInit /\ [][MainNext]_vars

\* main() has ended: it returned, or an exception left it.
MainEnded == pc \in {"done", "raised"}

\* The calls main() makes when no call raises, given what the fetches returned.
ExpectedEvents ==
    <<"get_gas_prices">>
        \o (IF truthy(locals.gas_data) THEN <<"format_gas_prices">> ELSE <<>>)
        \o <<"get_token_balance">>
        \o (IF truthy(locals.token_data) THEN <<"format_balance">> ELSE <<>>)
        \o <<"get_eth_balance">>
        \o (IF truthy(locals.eth_data) THEN <<"format_balance">> ELSE <<>>)

\* C8: whatever the three fetches meet, main() issues each of them once, in
\* the order gas prices, token balance, native balance, and calls a formatter
\* right after a fetch exactly when that fetch returned a present result.
CE_C8 == MainEnded => events = ExpectedEvents

-----------------------------------------------------------------------------
(* format_balance on its own *)

MaxLen == 2
BigDigits == 400

Chars == {"0", "1", "9", "a", "-", "_", " "}
ShortStrings == UNION {[1..n -> Chars] : n \in 0..MaxLen}

FmtValues ==
    {PyStr(cs) : cs \in ShortStrings}
    \cup { PyStr(<<"1", "2", "3", "4", "5", "6", "7", "8", "9",
                   "0", "0", "0", "0", "0", "0", "0", "0", "0", "0", "0", "0">>),
           PyStr(<<"1", "0", "0", "0", "0", "0", "0">>),
           PyStr(<<"9", "0", "0", "7", "1", "9", "9", "2", "5", "4", "7", "4", "0", "9", "9", "3">>),
           PyStr(<<"n", "o", "t", "-", "a", "-", "n", "u", "m", "b", "e", "r">>),
           PyStr(<<"1">> \o [i \in 1..BigDigits |-> "0"]),
           PyInt(<<"5">>), PyNone, PyList(<<>>), PyDict(<<>>) }
Decimals == {0, 6, 18}

FmtInit ==
    /\ api = <<>>
    /\ ctor_args = <<>>
    /\ n_requests = 0
    /\ last_sent = <<>>
    /\ calls = 0
    /\ prev_op = ""
    /\ ret = NoCall
    /\ stdout = <<>>
    /\ pc = ""
    /\ locals = NoLocals
    /\ events = <<>>
    /\ fmt_in \in FmtValues \X Decimals

FormatBalance ==
    /\ fmt_in # <<>>
    /\ ret.op = ""
    /\ ret' = Called("format_balance", fmt_in, format_balance(fmt_in[1], fmt_in[2]))
    /\ UNCHANGED <<api, ctor_args, n_requests, last_sent, calls, prev_op, stdout,
                   pc, locals, events, fmt_in>>

FmtNext == FormatBalance

SpecFmt == FmtInit /\ [][FmtNext]_vars

InvalidMarker == PyStr(<<"Invalid balance">>)

\* A decimal-integer string: digits after an optional sign.
IsDecimalString(v) ==
    /\ v.t = "str"
    /\ LET lit == IF v.s # <<>> /\ v.s[1] \in {"+", "-"} THEN Tail(v.s) ELSE v.s
       IN  lit # <<>> /\ \A i \in 1..Len(lit) : is_digit(lit[i])
\* Not a number at all: text that int() rejects, or a value that is neither
\* text nor a number.
IsNotNumeric(v) ==
    \/ v.t = "str" /\ int_of(v).raised # ""
    \/ v.t \in {"None", "list", "dict"}

\* The text format_balance returned looks like a number: digits, a point, six digits.
IsNumberText(cs) ==
    /\ Len(cs) >= 8
    /\ cs[Len(cs) - 6] = "."
    /\ \A i \in 1..Len(cs) :
          i # Len(cs) - 6 => (is_digit(cs[i]) \/ (i = 1 /\ cs[i] = "-"))

\* C5: format_balance never raises: it returns "Invalid balance" for what is
\* not a number, and a formatted number for every decimal-integer string,
\* whatever its magnitude.
CE_C5 ==
    ret.op = "format_balance" =>
        /\ ret.raised = ""
        /\ IsNotNumeric(ret.arg[1]) => ret.value = InvalidMarker
        /\ IsDecimalString(ret.arg[1]) => IsNumberText(ret.value.s)

\* The digits of |raw| * 10^6 / 10^decimals, cut off after the sixth
\* fractional digit, and whether something was cut off.
ExactMicro(mag, decimals) ==
    IF decimals <= 6 THEN strip_zeros(mag \o [i \in 1..(6 - decimals) |-> 0])
    ELSE IF Len(mag) <= decimals - 6 THEN <<>>
    ELSE SubSeq(mag, 1, Len(mag) - (decimals - 6))
IsCut(mag, decimals) ==
    /\ decimals > 6
    /\ \E i \in 1..Len(mag) : i > Len(mag) - (decimals - 6) /\ mag[i] # 0

\* The renderings of the exact quotient with six fractional digits: cut off,
\* or rounded up when something was cut off.
ExactRenderings(v, decimals) ==
    LET n == int_of(v)
        k == ExactMicro(n.mag, decimals)
    IN  {fixed6(n.neg, k)}
        \cup (IF IsCut(n.mag, decimals) THEN {fixed6(n.neg, inc(k))} ELSE {})

\* C6: for a decimal-integer string, format_balance returns the rendering of
\* the exact quotient raw / 10^decimals with six fractional digits, however
\* large raw is (here: cut off or rounded, whichever the rounding rule is).
CE_C6 ==
    (ret.op = "format_balance" /\ IsDecimalString(ret.arg[1])) =>
        /\ ret.raised = ""
        /\ ret.value.s \in ExactRenderings(ret.arg[1], ret.arg[2])

====
